---- MODULE Spec2Model ----
(***************************************************************************)
(* State machine of the electroplating simulation (client/src/main.tsx):  *)
(* the ion and electron registry, the drag handlers, the pairing effect   *)
(* and the mass / plating ledger.                                         *)
(*                                                                         *)
(* Conventions.  A progress value is kept in hundredths (0..100 stands    *)
(* for 0.00..1.00): the code only ever stores 0, 1 or a sample p of the   *)
(* loop "for (p = 0; p <= 1; p += 0.01)", whose k-th value is k/100 up to *)
(* a rounding error below 1e-15.  Coordinates are in the units of the     *)
(* SVG viewBox (1000 x 600).  A particle id `${prefix}-${Date.now()}` is  *)
(* the pair <<prefix, clock reading>>.                                     *)
(***************************************************************************)
EXTENDS Integers, Sequences, FiniteSets, TLC

VARIABLES
    anodeMass,            \* useState(ANODE_START_MASS)
    cathodeMass,          \* useState(CATHODE_START_MASS)
    ions,                 \* useState<Particle[]>([])
    electrons,            \* useState<Particle[]>([])
    platedCount,          \* useState(0)
    showSuccess,          \* useState(false)
    isAnodeConnected,     \* useState(false)
    isCathodeConnected,   \* useState(false)
    draggingElectronId,   \* useState<string | null>(null)
    anodeWirePoints,      \* useState<{x,y}[]>([])
    cathodeWirePoints,    \* useState<{x,y}[]>([])
    now,                  \* the last value read from Date.now()
    coarseClock,          \* whether two events can read the same value from Date.now()
    ionResetKey,          \* useState(0), part of the React key of every rendered ion
    toast,                \* title of the toast() call of the last event, "none" if it made none
    winScheduled,         \* number of setTimeout(playWin) calls since the last restart
    currentDotProgress,   \* useState(0), in hundredths
    flowIntervals,        \* number of live setInterval timers of the flow-indicator effect
    arrivals              \* history: the list positions of the waiting electrons, in the
                          \* order in which they reached the cathode (Untracked: not recorded)

vars == <<anodeMass, cathodeMass, ions, electrons, platedCount, showSuccess,
          isAnodeConnected, isCathodeConnected, draggingElectronId,
          anodeWirePoints, cathodeWirePoints, now, coarseClock, ionResetKey, toast,
          winScheduled, currentDotProgress, flowIntervals, arrivals>>

flowVars == <<currentDotProgress, flowIntervals>>

----------------------------------------------------------------------------
(* Program constants *)

ANODE_START_MASS == 50
CATHODE_START_MASS == 25
MASS_PER_UNIT == 5
TOTAL_PLATING_GOAL == 6
DEPLETION_THRESHOLD == 10
ACTIVE_CAP == 5
COMPLETE_THRESHOLD == 95
SAMPLE_END == 99

(* Bounds of the model *)

MaxIonsCoarse == 2
MaxResetKey == 1
MaxDot == 2

NULL == <<>>

Min(a, b) == IF a <= b THEN a ELSE b
Max(a, b) == IF a >= b THEN a ELSE b

----------------------------------------------------------------------------
(* Path geometry *)

Pt(px, py) == [x |-> px, y |-> py]

\* Anchor centres as measured by getBoundingClientRect, already in viewBox units.
Anchors ==
    [plus |-> Pt(400, 140), minus |-> Pt(600, 140),
     anodeConn |-> Pt(200, 300), cathodeConn |-> Pt(800, 300)]

topY(a) == Min(a.plus.y, a.minus.y) - 40

calcAnodeWirePoints(a) ==
    << Pt(a.anodeConn.x, a.anodeConn.y), Pt(a.anodeConn.x, topY(a)), Pt(a.plus.x, topY(a)) >>

calcCathodeWirePoints(a) ==
    << Pt(a.minus.x, topY(a)), Pt(a.cathodeConn.x, topY(a)), Pt(a.cathodeConn.x, a.cathodeConn.y) >>

\* Variant: the fraction along the leg is taken to be the progress along the path.
getPointOnPath_WholePathFraction(points, progress) ==
    IF progress <= 0 THEN points[1]
    ELSE IF progress >= 100 THEN points[Len(points)]
    ELSE LET totalSegments == Len(points) - 1
             segmentProgress == progress * totalSegments
             segmentIndex == segmentProgress \div 100
             startPoint == points[Min(segmentIndex, Len(points) - 1) + 1]
             endPoint == points[Min(segmentIndex + 1, Len(points) - 1) + 1]
         IN  Pt(startPoint.x + ((endPoint.x - startPoint.x) * progress) \div 100,
                startPoint.y + ((endPoint.y - startPoint.y) * progress) \div 100)

\* getPointOnPath(points, progress); points is 1-based here, 0-based in the code.
getPointOnPath(points, progress) ==
    IF progress <= 0 THEN points[1]
    ELSE IF progress >= 100 THEN points[Len(points)]
    ELSE LET totalSegments == Len(points) - 1
             segmentProgress == progress * totalSegments
             segmentIndex == segmentProgress \div 100
             localProgress == segmentProgress - 100 * segmentIndex
             startPoint == points[Min(segmentIndex, Len(points) - 1) + 1]
             endPoint == points[Min(segmentIndex + 1, Len(points) - 1) + 1]
         IN  Pt(startPoint.x + ((endPoint.x - startPoint.x) * localProgress) \div 100,
                startPoint.y + ((endPoint.y - startPoint.y) * localProgress) \div 100)

\* Squared distance; the code compares Math.sqrt of it, which orders the same way.
DistSq(point, dragX, dragY) ==
    (point.x - dragX) * (point.x - dragX) + (point.y - dragY) * (point.y - dragY)

\* The sampling loop of getProgressFromDrag over the samples lo..hi: the first
\* sample at the least distance (the loop replaces bestProgress only on
\* "dist < minDist").  The range is halved instead of walked to keep the
\* evaluation shallow; the result is that of the loop.
RECURSIVE scanSamples(_, _, _, _, _)
scanSamples(points, dragX, dragY, lo, hi) ==
    IF lo = hi THEN lo
    ELSE LET mid == (lo + hi) \div 2
             left == scanSamples(points, dragX, dragY, lo, mid)
             right == scanSamples(points, dragX, dragY, mid + 1, hi)
         IN  IF DistSq(getPointOnPath(points, right), dragX, dragY)
                  < DistSq(getPointOnPath(points, left), dragX, dragY)
             THEN right ELSE left

\* Pointer positions of an electron drag, in viewBox units: near the battery end
\* of the anode wire, near the cathode end of the cathode wire, beside the
\* first leg of the anode wire.
DragPoints == { Pt(410, 90), Pt(810, 310), Pt(190, 150) }

\* The scan depends on the path and the pointer only; its results for the paths
\* and pointer positions of the model are tabulated once.
sampleTable ==
    [k \in { calcAnodeWirePoints(Anchors), calcCathodeWirePoints(Anchors) } \X DragPoints |->
        scanSamples(k[1], k[2].x, k[2].y, 0, SAMPLE_END)] @@ <<>>

bestSample(points, dragX, dragY) ==
    IF <<points, Pt(dragX, dragY)>> \in DOMAIN sampleTable
    THEN sampleTable[<<points, Pt(dragX, dragY)>>]
    ELSE scanSamples(points, dragX, dragY, 0, SAMPLE_END)

\* Variant: the nearest sample is returned without the one-way clamp.
getProgressFromDrag_NoMax(points, dragX, dragY, currentProgress) ==
    bestSample(points, dragX, dragY)

\* Variant: the nearest sample is added to the progress the electron has.
getProgressFromDrag_Sum(points, dragX, dragY, currentProgress) ==
    currentProgress + bestSample(points, dragX, dragY)

getProgressFromDrag(points, dragX, dragY, currentProgress) ==
    Max(currentProgress, bestSample(points, dragX, dragY))

----------------------------------------------------------------------------
(* Inputs: pointer positions *)

\* Client rectangles of the beaker and of the cathode column.
beakerRect == [left |-> 160, right |-> 840, top |-> 200, bottom |-> 520]
cathodeRect == [left |-> 700, right |-> 780, top |-> 224, bottom |-> 400]
anodeRect == [left |-> 224, right |-> 280, top |-> 224, bottom |-> 450]

getElectrolyteBounds ==
    [left |-> beakerRect.left + 20, right |-> beakerRect.right - 20,
     top |-> beakerRect.top + 60, bottom |-> beakerRect.bottom - 20]

\* Drop points of an ion drag: in the solution, on the cathode, outside the
\* beaker, and on the cathode column above the solution surface.
DropPoints == { Pt(400, 400), Pt(740, 300), Pt(50, 400), Pt(740, 240) }

\* Drop points of a wire handle.
HandleDropPoints == { Pt(250, 300), Pt(740, 300), Pt(500, 50) }

InRect(point, r, margin) ==
    /\ point.x >= r.left - margin
    /\ point.x <= r.right + margin
    /\ point.y >= r.top - margin
    /\ point.y <= r.bottom + margin

----------------------------------------------------------------------------
(* Registry helpers *)

Filter(s, Keep(_)) == SelectSeq(s, Keep)
Count(s, Test(_)) == Len(SelectSeq(s, Test))
IsActive(p) == p.status = "active"
IsWaiting(p) == p.status = "waiting"
Ids(s) == { s[i].id : i \in DOMAIN s }

Take(s, n) == SubSeq(s, 1, n)

\* prev.find(e => e.id === id): the first element with that id.
Find(s, id) == s[CHOOSE i \in DOMAIN s : s[i].id = id /\ \A j \in 1..(i - 1) : s[j].id # id]

activeParticles == Count(ions, IsActive) + Count(electrons, IsActive)
isCircuitComplete == isAnodeConnected /\ isCathodeConnected

\* Date.now().  The program only ever tests readings for equality (as parts of
\* ids), so a reading is the name of an instant, not a magnitude, and a later
\* instant is named by the least number that names no instant in use.
readingsOf(i, e, d, n) ==
    { i[k].id[2] : k \in DOMAIN i } \cup { e[k].id[2] : k \in DOMAIN e }
        \cup (IF d = NULL THEN {} ELSE { d[2] }) \cup { n }

laterThan(last) ==
    LET used == readingsOf(ions, electrons, draggingElectronId, now) \cup { last }
    IN  CHOOSE t \in 0..Cardinality(used) : t \notin used /\ \A u \in 0..(t - 1) : u \in used

\* The first reading of a handler: later than the last reading of the previous
\* event, or equal to it where the clock is too coarse to tell the events apart.
DateNowValues == IF coarseClock THEN { now, laterThan(now) } ELSE { laterThan(now) }

\* A further reading of the same handler: the same millisecond or a later one.
\* Where the clock tells events apart the difference cannot be observed (ids
\* of different prefixes are never equal) and the readings are taken equal.
DateNowAgain(last) == IF coarseClock THEN { last, laterThan(last) } ELSE { last }

\* The instants in use are renamed 0, 1, 2, ... in the order in which the ion
\* list, the electron list, the dragged id and the clock mention them, so that
\* two states that differ only in the names of their instants are one state.
readingOrder(i, e, d, n) ==
    [k \in DOMAIN i |-> i[k].id[2]] \o [k \in DOMAIN e |-> e[k].id[2]]
        \o (IF d = NULL THEN <<>> ELSE << d[2] >>) \o << n >>

renamed(order, t) ==
    LET first == CHOOSE k \in DOMAIN order :
                     order[k] = t /\ \A j \in 1..(k - 1) : order[j] # t
    IN  Cardinality({ order[j] : j \in 1..(first - 1) })

\* The update of the four state components that hold instants.
commit(i, e, d, n) ==
    LET order == readingOrder(i, e, d, n)
        rn(q) == [q EXCEPT !.id = << q.id[1], renamed(order, q.id[2]) >>]
    IN  /\ ions' = [k \in DOMAIN i |-> rn(i[k])]
        /\ electrons' = [k \in DOMAIN e |-> rn(e[k])]
        /\ draggingElectronId' = IF d = NULL THEN NULL ELSE << d[1], renamed(order, d[2]) >>
        /\ now' = renamed(order, n)

----------------------------------------------------------------------------
(* The order of arrival at the cathode.  The electron list keeps its      *)
(* cathode electrons in the order of their hand-off, whatever the order   *)
(* in which they later become waiting; `arrivals` records the latter.     *)

Untracked == << 0 >>
tracked == arrivals # Untracked

\* The record after the electrons at the positions K alone are kept.
arrivalsKeeping(K) ==
    IF ~tracked THEN arrivals
    ELSE LET kept == SelectSeq(arrivals, LAMBDA i : i \in K)
         IN  [j \in 1..Len(kept) |-> Cardinality({ k \in K : k <= kept[j] })]

----------------------------------------------------------------------------
Init ==
    /\ anodeMass = ANODE_START_MASS
    /\ cathodeMass = CATHODE_START_MASS
    /\ ions = <<>>
    /\ electrons = <<>>
    /\ platedCount = 0
    /\ showSuccess = FALSE
    /\ isAnodeConnected = FALSE
    /\ isCathodeConnected = FALSE
    /\ draggingElectronId = NULL
    /\ anodeWirePoints = calcAnodeWirePoints(Anchors)
    /\ cathodeWirePoints = calcCathodeWirePoints(Anchors)
    /\ now = 0
    /\ coarseClock = FALSE
    /\ ionResetKey = 0
    /\ toast = "none"
    /\ winScheduled = 0
    /\ currentDotProgress = 0
    /\ flowIntervals = 0
    /\ arrivals = Untracked

----------------------------------------------------------------------------
(* The pairing effect (useEffect on [ions, electrons]).  React flushes a   *)
(* pending effect before it dispatches the next event, so no handler runs  *)
(* while the effect still has a batch to apply.                            *)

waitingIons == Filter(ions, IsWaiting)
waitingElectrons == Filter(electrons, IsWaiting)

pairingDue == Len(waitingIons) > 0 /\ Len(waitingElectrons) > 0

pairs == Min(Len(waitingIons), Len(waitingElectrons))

\* Variant: the slice of the waiting ions stops one short.
usedIonIds_OffByOne == Ids(Take(waitingIons, pairs - 1))

usedIonIds == Ids(Take(waitingIons, pairs))
\* Variant: the slice takes the waiting electrons from the end of the list.
usedElectronIds_Latest ==
    Ids(SubSeq(waitingElectrons, Len(waitingElectrons) - pairs + 1, Len(waitingElectrons)))

usedElectronIds == Ids(Take(waitingElectrons, pairs))

\* The "complete" signal of the setPlatedCount updater.
goalReached(newCount) == newCount >= TOTAL_PLATING_GOAL

pairingEffect ==
    /\ pairingDue
    /\ pairs > 0
    /\ commit(Filter(ions, LAMBDA p : p.id \notin usedIonIds),
              Filter(electrons, LAMBDA p : p.id \notin usedElectronIds),
              draggingElectronId, now)
    /\ cathodeMass' = cathodeMass + MASS_PER_UNIT * pairs
    /\ platedCount' = platedCount + pairs
    /\ IF goalReached(platedCount + pairs)
       THEN winScheduled' = winScheduled + 1 /\ showSuccess' = TRUE
       ELSE UNCHANGED <<winScheduled, showSuccess>>
    /\ toast' = "platingSuccessful"
    /\ arrivals' = arrivalsKeeping({ i \in DOMAIN electrons : electrons[i].id \notin usedElectronIds })
    /\ UNCHANGED <<anodeMass, isAnodeConnected, isCathodeConnected,
                   coarseClock, flowVars, ionResetKey, anodeWirePoints, cathodeWirePoints>>

----------------------------------------------------------------------------
(* Event handlers *)

\* Variant: the effect returns no cleanup, so no run clears an interval.
flowEffect_NoCleanup(complete) ==
    IF complete = isCircuitComplete
    THEN UNCHANGED flowVars
    ELSE IF complete
    THEN flowIntervals' = flowIntervals + 1 /\ UNCHANGED currentDotProgress
    ELSE UNCHANGED flowIntervals /\ currentDotProgress' = 0

\* The flow-indicator effect (useEffect on [isCircuitComplete]), run by the event
\* that changes the value: the cleanup of the previous run clears its interval,
\* then the new run either zeroes the indicator or starts an interval.
flowEffect(complete) ==
    IF complete = isCircuitComplete
    THEN UNCHANGED flowVars
    ELSE IF complete
    THEN flowIntervals' = flowIntervals + 1 /\ UNCHANGED currentDotProgress
    ELSE flowIntervals' = flowIntervals - 1 /\ currentDotProgress' = 0

\* onDragEnd of the anode wire handle, rendered while !isAnodeConnected.
connectAnode(point) ==
    /\ ~pairingDue
    /\ ~isAnodeConnected
    /\ InRect(point, anodeRect, 50)
    /\ isAnodeConnected' = TRUE
    /\ flowEffect(isCathodeConnected)
    /\ toast' = "anodeConnected"
    /\ UNCHANGED <<anodeMass, cathodeMass, ions, electrons, platedCount, showSuccess,
                   isCathodeConnected, draggingElectronId, coarseClock, arrivals, ionResetKey, anodeWirePoints,
                   cathodeWirePoints, now, winScheduled>>

\* onDragEnd of the cathode wire handle, rendered while !isCathodeConnected.
connectCathode(point) ==
    /\ ~pairingDue
    /\ ~isCathodeConnected
    /\ InRect(point, cathodeRect, 50)
    /\ isCathodeConnected' = TRUE
    /\ flowEffect(isAnodeConnected)
    /\ toast' = "cathodeConnected"
    /\ UNCHANGED <<anodeMass, cathodeMass, ions, electrons, platedCount, showSuccess,
                   isAnodeConnected, draggingElectronId, coarseClock, arrivals, ionResetKey, anodeWirePoints,
                   cathodeWirePoints, now, winScheduled>>

\* Variants of the early returns of spawnIon: a depletion threshold of 5, a
\* strict depletion test, a strict capacity test, a test of the anode latch alone.
spawnRejection_LowThreshold ==
    IF ~isAnodeConnected \/ ~isCathodeConnected THEN "circuitOpen"
    ELSE IF anodeMass <= MASS_PER_UNIT THEN "anodeDepleted"
    ELSE IF activeParticles >= ACTIVE_CAP THEN "tooManyParticles"
    ELSE "none"

spawnRejection_StrictDepletion ==
    IF ~isAnodeConnected \/ ~isCathodeConnected THEN "circuitOpen"
    ELSE IF anodeMass < DEPLETION_THRESHOLD THEN "anodeDepleted"
    ELSE IF activeParticles >= ACTIVE_CAP THEN "tooManyParticles"
    ELSE "none"

spawnRejection_StrictCap ==
    IF ~isAnodeConnected \/ ~isCathodeConnected THEN "circuitOpen"
    ELSE IF anodeMass <= DEPLETION_THRESHOLD THEN "anodeDepleted"
    ELSE IF activeParticles > ACTIVE_CAP THEN "tooManyParticles"
    ELSE "none"

spawnRejection_AnodeLatchOnly ==
    IF ~isAnodeConnected THEN "circuitOpen"
    ELSE IF anodeMass <= DEPLETION_THRESHOLD THEN "anodeDepleted"
    ELSE IF activeParticles >= ACTIVE_CAP THEN "tooManyParticles"
    ELSE "none"

\* Variant: the capacity test comes before the depletion test.
spawnRejection_CapFirst ==
    IF ~isAnodeConnected \/ ~isCathodeConnected THEN "circuitOpen"
    ELSE IF activeParticles >= ACTIVE_CAP THEN "tooManyParticles"
    ELSE IF anodeMass <= DEPLETION_THRESHOLD THEN "anodeDepleted"
    ELSE "none"

\* The three early returns of spawnIon, in the order of the code; "none" = no rejection.
spawnRejection ==
    IF ~isAnodeConnected \/ ~isCathodeConnected THEN "circuitOpen"
    ELSE IF anodeMass <= DEPLETION_THRESHOLD THEN "anodeDepleted"
    ELSE IF activeParticles >= ACTIVE_CAP THEN "tooManyParticles"
    ELSE "none"

newIon(t) == [id |-> <<"ion", t>>, type |-> "ion", x |-> 0, y |-> 0, status |-> "active"]

\* Variant: the electron of a spawn starts on the cathode wire.
newAnodeElectron_OnCathode(t) ==
    LET startPoint == IF Len(cathodeWirePoints) > 0 THEN cathodeWirePoints[1] ELSE Pt(0, 0)
    IN  [id |-> <<"ae", t>>, type |-> "anode_electron", x |-> startPoint.x, y |-> startPoint.y,
         status |-> "active", segment |-> "cathode_wire", progress |-> 0]

newAnodeElectron(t) ==
    LET startPoint == IF Len(anodeWirePoints) > 0 THEN anodeWirePoints[1] ELSE Pt(0, 0)
    IN  [id |-> <<"ae", t>>, type |-> "anode_electron", x |-> startPoint.x, y |-> startPoint.y,
         status |-> "active", segment |-> "anode_wire", progress |-> 0]

newCathodeElectron(t) ==
    LET startPoint == IF Len(cathodeWirePoints) > 0 THEN cathodeWirePoints[1] ELSE Pt(0, 0)
    IN  [id |-> <<"ce", t>>, type |-> "cathode_electron", x |-> startPoint.x, y |-> startPoint.y,
         status |-> "active", segment |-> "cathode_wire", progress |-> 0]

\* Under a coarse clock equal ids let electrons outnumber the ions;
\* there, and where the order of arrival is recorded, the model lets each
\* list hold MaxIonsCoarse particles.  Otherwise the program's own gates
\* bound both lists.
withinModelBound ==
    (coarseClock \/ tracked) => (Len(ions) < MaxIonsCoarse /\ Len(electrons) < MaxIonsCoarse)

\* onClick of the anode bar.
spawnIon ==
    /\ ~pairingDue
    /\ IF spawnRejection # "none"
       THEN /\ toast' = spawnRejection
            /\ UNCHANGED <<anodeMass, cathodeMass, ions, electrons, platedCount, showSuccess,
                           isAnodeConnected, isCathodeConnected, draggingElectronId,
                           coarseClock, flowVars, arrivals, ionResetKey, anodeWirePoints, cathodeWirePoints, now, winScheduled>>
       ELSE /\ withinModelBound
            /\ \E t1 \in DateNowValues : \E t2 \in DateNowAgain(t1) :
                  commit(Append(ions, newIon(t1)), Append(electrons, newAnodeElectron(t2)),
                         draggingElectronId, t2)
            /\ anodeMass' = anodeMass - MASS_PER_UNIT
            /\ toast' = "none"
            /\ UNCHANGED <<cathodeMass, platedCount, showSuccess, isAnodeConnected,
                           isCathodeConnected, coarseClock, flowVars, arrivals, ionResetKey, anodeWirePoints, cathodeWirePoints,
                           winScheduled>>

\* Variants of handleIonDragEnd: the cathode test comes before the bounds test;
\* a drop on the cathode counts whether or not an electron waits.
handleIonDragEnd_CathodeFirst(id, dropPoint) ==
    LET hasWaitingElectron == \E i \in DOMAIN electrons : electrons[i].status = "waiting"
        outside == \/ dropPoint.x < getElectrolyteBounds.left
                   \/ dropPoint.x > getElectrolyteBounds.right
                   \/ dropPoint.y < getElectrolyteBounds.top
                   \/ dropPoint.y > getElectrolyteBounds.bottom
        onCathode == InRect(dropPoint, cathodeRect, 0)
    IN  IF onCathode /\ hasWaitingElectron
        THEN /\ ions' = [i \in DOMAIN ions |->
                            IF ions[i].id = id THEN [ions[i] EXCEPT !.status = "waiting"]
                            ELSE ions[i]]
             /\ toast' = "none"
             /\ UNCHANGED ionResetKey
        ELSE IF outside
        THEN /\ ionResetKey < MaxResetKey
             /\ toast' = "stayInSolution"
             /\ ionResetKey' = ionResetKey + 1
             /\ UNCHANGED ions
        ELSE IF onCathode /\ ~hasWaitingElectron
        THEN /\ toast' = "waitForElectron"
             /\ UNCHANGED <<ions, ionResetKey>>
        ELSE /\ toast' = "none"
             /\ UNCHANGED <<ions, ionResetKey>>

handleIonDragEnd_NoElectronTest(id, dropPoint) ==
    LET outside == \/ dropPoint.x < getElectrolyteBounds.left
                   \/ dropPoint.x > getElectrolyteBounds.right
                   \/ dropPoint.y < getElectrolyteBounds.top
                   \/ dropPoint.y > getElectrolyteBounds.bottom
        onCathode == InRect(dropPoint, cathodeRect, 0)
    IN  IF outside
        THEN /\ ionResetKey < MaxResetKey
             /\ toast' = "stayInSolution"
             /\ ionResetKey' = ionResetKey + 1
             /\ UNCHANGED ions
        ELSE IF onCathode
        THEN /\ ions' = [i \in DOMAIN ions |->
                            IF ions[i].id = id THEN [ions[i] EXCEPT !.status = "waiting"]
                            ELSE ions[i]]
             /\ toast' = "none"
             /\ UNCHANGED ionResetKey
        ELSE /\ toast' = "none"
             /\ UNCHANGED <<ions, ionResetKey>>

\* handleIonDragEnd(id, info) with info.point = dropPoint.
handleIonDragEnd(id, dropPoint) ==
    LET hasWaitingElectron == \E i \in DOMAIN electrons : electrons[i].status = "waiting"
        outside == \/ dropPoint.x < getElectrolyteBounds.left
                   \/ dropPoint.x > getElectrolyteBounds.right
                   \/ dropPoint.y < getElectrolyteBounds.top
                   \/ dropPoint.y > getElectrolyteBounds.bottom
        onCathode == InRect(dropPoint, cathodeRect, 0)
    IN  IF outside
        THEN /\ ionResetKey < MaxResetKey
             /\ toast' = "stayInSolution"
             /\ ionResetKey' = ionResetKey + 1
             /\ UNCHANGED ions
        ELSE IF onCathode /\ hasWaitingElectron
        THEN /\ ions' = [i \in DOMAIN ions |->
                            IF ions[i].id = id THEN [ions[i] EXCEPT !.status = "waiting"]
                            ELSE ions[i]]
             /\ toast' = "none"
             /\ UNCHANGED ionResetKey
        ELSE IF onCathode /\ ~hasWaitingElectron
        THEN /\ toast' = "waitForElectron"
             /\ UNCHANGED <<ions, ionResetKey>>
        ELSE /\ toast' = "none"
             /\ UNCHANGED <<ions, ionResetKey>>

\* onDragEnd of an ion; only ions with status active are rendered.
ionDragEnd ==
    /\ ~pairingDue
    /\ \E i \in DOMAIN ions : \E dropPoint \in DropPoints :
          /\ ions[i].status = "active"
          /\ handleIonDragEnd(ions[i].id, dropPoint)
    /\ UNCHANGED <<anodeMass, cathodeMass, electrons, platedCount, showSuccess,
                   isAnodeConnected, isCathodeConnected, draggingElectronId,
                   coarseClock, flowVars, arrivals, anodeWirePoints, cathodeWirePoints, now, winScheduled>>

\* onMouseDown / onTouchStart of an electron; only active electrons are rendered.
electronMouseDown ==
    /\ ~pairingDue
    /\ \E i \in DOMAIN electrons :
          /\ electrons[i].status = "active"
          /\ commit(ions, electrons, electrons[i].id, now)
    /\ toast' = "none"
    /\ UNCHANGED <<anodeMass, cathodeMass, platedCount, showSuccess, isAnodeConnected,
                   isCathodeConnected, coarseClock, flowVars, arrivals, ionResetKey, anodeWirePoints, cathodeWirePoints, winScheduled>>

\* client -> viewBox conversion of onMouseMove; the svg element fills the viewBox.
svgRect == [left |-> 0, top |-> 0, width |-> 1000, height |-> 600]
toSvgX(clientX) == ((clientX - svgRect.left) * 1000) \div svgRect.width
toSvgY(clientY) == ((clientY - svgRect.top) * 600) \div svgRect.height

\* Variant: on a path without points the update falls back to the origin, as
\* the start point of a new electron does.
advancedElectrons_NoPathTest(es, id, point, anodePoints, cathodePoints) ==
    IF \A i \in DOMAIN es : es[i].id # id
    THEN es
    ELSE LET electron == Find(es, id)
             points == IF electron.segment = "anode_wire" THEN anodePoints
                       ELSE cathodePoints
         IN  IF Len(points) > 0
             THEN LET newProgress == getProgressFromDrag(points, toSvgX(point.x),
                                                         toSvgY(point.y), electron.progress)
                      newPos == getPointOnPath(points, newProgress)
                  IN  [i \in DOMAIN es |->
                          IF es[i].id = id
                          THEN [es[i] EXCEPT !.x = newPos.x, !.y = newPos.y,
                                             !.progress = newProgress]
                          ELSE es[i]]
             ELSE [i \in DOMAIN es |->
                      IF es[i].id = id
                      THEN [es[i] EXCEPT !.x = 0, !.y = 0, !.progress = 0]
                      ELSE es[i]]

\* The drag-update of onMouseMove / onTouchMove: the electron list after the
\* electron `id` is dragged to `point`, for the given paths of the two wires.
advancedElectrons(es, id, point, anodePoints, cathodePoints) ==
    IF \A i \in DOMAIN es : es[i].id # id
    THEN es
    ELSE LET electron == Find(es, id)
             points == IF electron.segment = "anode_wire" THEN anodePoints
                       ELSE cathodePoints
         IN  IF Len(points) > 0
             THEN LET newProgress == getProgressFromDrag(points, toSvgX(point.x),
                                                         toSvgY(point.y), electron.progress)
                      newPos == getPointOnPath(points, newProgress)
                  IN  [i \in DOMAIN es |->
                          IF es[i].id = id
                          THEN [es[i] EXCEPT !.x = newPos.x, !.y = newPos.y,
                                             !.progress = newProgress]
                          ELSE es[i]]
             ELSE es

advanceElectron(id, point) ==
    electrons' = advancedElectrons(electrons, id, point, anodeWirePoints, cathodeWirePoints)

\* onMouseMove / onTouchMove of the svg layer.
svgMouseMove ==
    /\ ~pairingDue
    /\ draggingElectronId # NULL
    /\ \E point \in DragPoints : advanceElectron(draggingElectronId, point)
    /\ toast' = "none"
    /\ UNCHANGED <<anodeMass, cathodeMass, ions, platedCount, showSuccess,
                   isAnodeConnected, isCathodeConnected, draggingElectronId,
                   coarseClock, flowVars, arrivals, ionResetKey, anodeWirePoints, cathodeWirePoints, now, winScheduled>>

\* Variant: an electron dropped short of the end of its wire snaps back to the start.
handleElectronDragEnd_SnapBack(id) ==
    IF \A i \in DOMAIN electrons : electrons[i].id # id
    THEN { [electrons |-> electrons, now |-> now, toast |-> "none"] }
    ELSE LET electron == Find(electrons, id)
         IN  IF electron.segment = "anode_wire" /\ electron.progress >= COMPLETE_THRESHOLD
             THEN { [electrons |-> Append(Filter(electrons, LAMBDA e : e.id # id),
                                          newCathodeElectron(t)),
                     now |-> t, toast |-> "electronAtBattery"] : t \in DateNowValues }
             ELSE IF electron.segment = "cathode_wire"
                     /\ electron.progress >= COMPLETE_THRESHOLD
             THEN { [electrons |-> [i \in DOMAIN electrons |->
                          IF electrons[i].id = id
                          THEN [electrons[i] EXCEPT !.status = "waiting", !.progress = 100]
                          ELSE electrons[i]],
                     now |-> now, toast |-> "none"] }
             ELSE { [electrons |-> [i \in DOMAIN electrons |->
                          IF electrons[i].id = id
                          THEN [electrons[i] EXCEPT !.progress = 0]
                          ELSE electrons[i]],
                     now |-> now, toast |-> "none"] }

\* handleElectronDragEnd(id): the results of its setElectrons updater, one per
\* clock reading: hand-off at the battery, arrival at the cathode, or nothing.
handleElectronDragEnd(id) ==
    IF \A i \in DOMAIN electrons : electrons[i].id # id
    THEN { [electrons |-> electrons, now |-> now, toast |-> "none"] }
    ELSE LET electron == Find(electrons, id)
         IN  IF electron.segment = "anode_wire" /\ electron.progress >= COMPLETE_THRESHOLD
             THEN { [electrons |-> Append(Filter(electrons, LAMBDA e : e.id # id),
                                          newCathodeElectron(t)),
                     now |-> t, toast |-> "electronAtBattery"] : t \in DateNowValues }
             ELSE IF electron.segment = "cathode_wire"
                     /\ electron.progress >= COMPLETE_THRESHOLD
             THEN { [electrons |-> [i \in DOMAIN electrons |->
                          IF electrons[i].id = id
                          THEN [electrons[i] EXCEPT !.status = "waiting", !.progress = 100]
                          ELSE electrons[i]],
                     now |-> now, toast |-> "none"] }
             ELSE { [electrons |-> electrons, now |-> now, toast |-> "none"] }

\* The order of arrival after handleElectronDragEnd(id): a hand-off removes list
\* positions, an arrival at the cathode adds the electrons it turns to waiting.
arrivalsAfterDragEnd(id) ==
    IF ~tracked \/ \A i \in DOMAIN electrons : electrons[i].id # id
    THEN arrivals
    ELSE LET electron == Find(electrons, id)
         IN  IF electron.segment = "anode_wire" /\ electron.progress >= COMPLETE_THRESHOLD
             THEN arrivalsKeeping({ i \in DOMAIN electrons : electrons[i].id # id })
             ELSE IF electron.segment = "cathode_wire"
                     /\ electron.progress >= COMPLETE_THRESHOLD
             THEN arrivals \o SelectSeq([i \in DOMAIN electrons |-> i],
                                        LAMBDA i : electrons[i].id = id
                                                   /\ electrons[i].status # "waiting")
             ELSE arrivals

\* onMouseUp / onTouchEnd of the svg layer.
svgMouseUp ==
    /\ ~pairingDue
    /\ draggingElectronId # NULL
    /\ \E r \in handleElectronDragEnd(draggingElectronId) :
          /\ commit(ions, r.electrons, NULL, r.now)
          /\ toast' = r.toast
    /\ arrivals' = arrivalsAfterDragEnd(draggingElectronId)
    /\ UNCHANGED <<anodeMass, cathodeMass, platedCount, showSuccess, isAnodeConnected,
                   isCathodeConnected, coarseClock, flowVars, ionResetKey, anodeWirePoints, cathodeWirePoints, winScheduled>>

\* Variant: the pointer leaving the svg layer ends the drag as a release does.
svgMouseLeave_EndsDrag == svgMouseUp

\* onMouseLeave of the svg layer: the drag is abandoned.
svgMouseLeave ==
    /\ ~pairingDue
    /\ draggingElectronId # NULL
    /\ commit(ions, electrons, NULL, now)
    /\ toast' = "none"
    /\ UNCHANGED <<anodeMass, cathodeMass, platedCount, showSuccess, isAnodeConnected,
                   isCathodeConnected, coarseClock, flowVars, arrivals, ionResetKey, anodeWirePoints, cathodeWirePoints, winScheduled>>

\* Variant: the restart leaves the cathode mass as it is.
resetGame_KeepsCathode ==
    /\ ~pairingDue
    /\ anodeMass' = ANODE_START_MASS
    /\ UNCHANGED cathodeMass
    /\ commit(<<>>, <<>>, draggingElectronId, now)
    /\ platedCount' = 0
    /\ showSuccess' = FALSE
    /\ isAnodeConnected' = FALSE
    /\ isCathodeConnected' = FALSE
    /\ winScheduled' = 0
    /\ flowEffect(FALSE)
    /\ arrivals' = IF tracked THEN <<>> ELSE arrivals
    /\ toast' = "none"
    /\ UNCHANGED <<coarseClock, ionResetKey, anodeWirePoints, cathodeWirePoints>>

\* resetGame: the restart button and the button of the success dialog.
resetGame ==
    /\ ~pairingDue
    /\ anodeMass' = ANODE_START_MASS
    /\ cathodeMass' = CATHODE_START_MASS
    /\ commit(<<>>, <<>>, draggingElectronId, now)
    /\ platedCount' = 0
    /\ showSuccess' = FALSE
    /\ isAnodeConnected' = FALSE
    /\ isCathodeConnected' = FALSE
    /\ winScheduled' = 0
    /\ flowEffect(FALSE)
    /\ arrivals' = IF tracked THEN <<>> ELSE arrivals
    /\ toast' = "none"
    /\ UNCHANGED <<coarseClock, ionResetKey, anodeWirePoints, cathodeWirePoints>>

\* Variant: closing the success dialog also clears the plated count.
closeSuccess_ClearsCount ==
    /\ ~pairingDue
    /\ showSuccess
    /\ showSuccess' = FALSE
    /\ platedCount' = 0
    /\ toast' = "none"
    /\ UNCHANGED <<anodeMass, cathodeMass, ions, electrons,
                   isAnodeConnected, isCathodeConnected, draggingElectronId,
                   coarseClock, flowVars, arrivals, ionResetKey, anodeWirePoints,
                   cathodeWirePoints, now, winScheduled>>

\* onOpenChange={setShowSuccess} of the success dialog: the user closes it.
closeSuccess ==
    /\ ~pairingDue
    /\ showSuccess
    /\ showSuccess' = FALSE
    /\ toast' = "none"
    /\ UNCHANGED <<anodeMass, cathodeMass, ions, electrons, platedCount,
                   isAnodeConnected, isCathodeConnected, draggingElectronId,
                   coarseClock, flowVars, arrivals, ionResetKey, anodeWirePoints, cathodeWirePoints, now, winScheduled>>

Next ==
    \/ \E point \in HandleDropPoints : connectAnode(point)
    \/ \E point \in HandleDropPoints : connectCathode(point)
    \/ spawnIon
    \/ electronMouseDown
    \/ svgMouseMove
    \/ svgMouseUp
    \/ svgMouseLeave
    \/ ionDragEnd
    \/ pairingEffect
    \/ closeSuccess
    \/ resetGame

Spec == Init /\ [][Next]_vars

\* The same program on a platform whose clock is coarser than the spacing of events.
InitCoarse ==
    /\ anodeMass = ANODE_START_MASS
    /\ cathodeMass = CATHODE_START_MASS
    /\ ions = <<>>
    /\ electrons = <<>>
    /\ platedCount = 0
    /\ showSuccess = FALSE
    /\ isAnodeConnected = FALSE
    /\ isCathodeConnected = FALSE
    /\ draggingElectronId = NULL
    /\ anodeWirePoints = calcAnodeWirePoints(Anchors)
    /\ cathodeWirePoints = calcCathodeWirePoints(Anchors)
    /\ now = 0
    /\ coarseClock = TRUE
    /\ ionResetKey = 0
    /\ toast = "none"
    /\ winScheduled = 0
    /\ currentDotProgress = 0
    /\ flowIntervals = 0
    /\ arrivals = Untracked

SpecCoarse == InitCoarse /\ [][Next]_vars

\* The callback of the flow-indicator interval, every 50 ms while one is live.
\* In IEEE arithmetic the hundredth sum of 0.01 is 1.0000000000000007 > 1, so
\* the indicator runs through 0.00 .. 0.99 and wraps.
flowTick ==
    /\ ~pairingDue
    /\ flowIntervals > 0
    /\ currentDotProgress < MaxDot
    /\ currentDotProgress' = IF currentDotProgress + 1 >= 100 THEN 0
                             ELSE currentDotProgress + 1
    /\ UNCHANGED <<anodeMass, cathodeMass, ions, electrons, platedCount, showSuccess,
                   isAnodeConnected, isCathodeConnected, draggingElectronId,
                   anodeWirePoints, cathodeWirePoints, now, coarseClock, ionResetKey,
                   toast, winScheduled, flowIntervals, arrivals>>

\* The program with the ticks of the flow indicator, observed together with
\* the order in which its electrons reach the cathode.
InitFlow ==
    /\ anodeMass = ANODE_START_MASS
    /\ cathodeMass = CATHODE_START_MASS
    /\ ions = <<>>
    /\ electrons = <<>>
    /\ platedCount = 0
    /\ showSuccess = FALSE
    /\ isAnodeConnected = FALSE
    /\ isCathodeConnected = FALSE
    /\ draggingElectronId = NULL
    /\ anodeWirePoints = calcAnodeWirePoints(Anchors)
    /\ cathodeWirePoints = calcCathodeWirePoints(Anchors)
    /\ now = 0
    /\ coarseClock = FALSE
    /\ ionResetKey = 0
    /\ toast = "none"
    /\ winScheduled = 0
    /\ currentDotProgress = 0
    /\ flowIntervals = 0
    /\ arrivals = <<>>

NextFlow == Next \/ flowTick

SpecFlow == InitFlow /\ [][NextFlow]_vars

----------------------------------------------------------------------------
(* Claims *)

\* C1: in every reachable state the number of active ions plus the number of
\* active electrons is at most 5.
C1_ActiveAtMostCap == activeParticles <= ACTIVE_CAP

\* C2: between two restarts the "complete" signal fires exactly once, on the
\* batch that first brings platedCount to the goal, and never again.
C2_CompleteFiresOnce ==
    winScheduled = (IF platedCount >= TOTAL_PLATING_GOAL THEN 1 ELSE 0)

\* C3 (as stated): no pairing occurs after the goal is reached, platedCount never
\* exceeds 6.
C3_PlatedAtMostGoal == platedCount <= TOTAL_PLATING_GOAL

\* C3 (amended): platedCount never exceeds the number of ions the anode can
\* release, (50 - 10) / 5 = 8, which is more than the goal.
C3_PlatedAtMostSupply ==
    platedCount <= (ANODE_START_MASS - DEPLETION_THRESHOLD) \div MASS_PER_UNIT

C3_Witness ==
    /\ platedCount = (ANODE_START_MASS - DEPLETION_THRESHOLD) \div MASS_PER_UNIT
    /\ anodeMass = DEPLETION_THRESHOLD

\* C4: one run of the pairing check is exhaustive: right after it no waiting ion
\* is left together with a waiting electron.
C4_PairingExhaustive ==
    [][pairingEffect =>
         Min(Count(ions', IsWaiting), Count(electrons', IsWaiting)) = 0]_vars

C4_Witness ==
    /\ toast = "platingSuccessful"
    /\ Count(electrons, IsWaiting) > 0
    /\ Count(ions, IsWaiting) = 0

\* C5: a drag-update never lowers the progress of any electron, whatever the
\* pointer position.
C5_ProgressMonotonic ==
    [][svgMouseMove =>
         /\ Len(electrons') = Len(electrons)
         /\ \A i \in DOMAIN electrons :
               /\ electrons'[i].segment = electrons[i].segment
               /\ electrons'[i].progress >= electrons[i].progress]_vars

\* An electron is dragged and already at the last sample of the cathode wire:
\* the pointer positions near the start of that wire are behind it.
C5_Witness ==
    \E i \in DOMAIN electrons :
        /\ electrons[i].id = draggingElectronId
        /\ electrons[i].segment = "cathode_wire"
        /\ electrons[i].status = "active"
        /\ electrons[i].progress = SAMPLE_END

\* C6: status changes follow the listed edges only.  Ids are compared by their
\* prefix, the instants being renamed from state to state.
kindOf(p) == [p EXCEPT !.id = p.id[1]]

\* The elements of s at the indices K, in order.
pick(s, K) ==
    [j \in 1..Cardinality(K) |->
        s[CHOOSE i \in K : Cardinality({ k \in K : k < i }) = j - 1]]

statusesListed ==
    /\ \A i \in DOMAIN ions : ions[i].status \in { "active", "waiting" }
    /\ \A i \in DOMAIN electrons :
          /\ electrons[i].status \in { "active", "waiting" }
          /\ electrons[i].status = "waiting" => electrons[i].segment = "cathode_wire"

ionEdge(p, q) ==
    \/ kindOf(q) = kindOf(p)
    \/ p.status = "active" /\ kindOf(q) = kindOf([p EXCEPT !.status = "waiting"])

electronEdge(p, q) ==
    /\ q.id[1] = p.id[1] /\ q.type = p.type /\ q.segment = p.segment
    /\ \/ q.status = p.status
       \/ p.status = "active" /\ p.segment = "cathode_wire" /\ q.status = "waiting"

ionsStepListed ==
    \/ /\ Len(ions') = Len(ions)
       /\ \A i \in DOMAIN ions : ionEdge(ions[i], ions'[i])
    \/ /\ Len(ions') = Len(ions) + 1
       /\ \A i \in DOMAIN ions : kindOf(ions'[i]) = kindOf(ions[i])
       /\ ions'[Len(ions')].status = "active"
    \/ \E K \in SUBSET DOMAIN ions :
          /\ [i \in DOMAIN ions' |-> kindOf(ions'[i])] = pick([i \in DOMAIN ions |-> kindOf(ions[i])], K)
          /\ \/ \A i \in DOMAIN ions \ K : ions[i].status = "waiting"
             \/ resetGame

electronsStepListed ==
    \/ /\ Len(electrons') = Len(electrons)
       /\ \A i \in DOMAIN electrons : electronEdge(electrons[i], electrons'[i])
    \/ /\ Len(electrons') = Len(electrons) + 1
       /\ \A i \in DOMAIN electrons : kindOf(electrons'[i]) = kindOf(electrons[i])
       /\ LET e == electrons'[Len(electrons')]
          IN  e.status = "active" /\ e.segment = "anode_wire" /\ e.progress = 0
    \/ \E K \in SUBSET DOMAIN electrons :
          /\ [i \in DOMAIN electrons' |-> kindOf(electrons'[i])]
                = pick([i \in DOMAIN electrons |-> kindOf(electrons[i])], K)
          /\ \/ \A i \in DOMAIN electrons \ K : electrons[i].status = "waiting"
             \/ resetGame
    \/ \E K \in SUBSET DOMAIN electrons :
          /\ K # DOMAIN electrons
          /\ Len(electrons') = Cardinality(K) + 1
          /\ [i \in 1..Cardinality(K) |-> kindOf(electrons'[i])]
                = pick([i \in DOMAIN electrons |-> kindOf(electrons[i])], K)
          /\ \A i \in DOMAIN electrons \ K :
                electrons[i].status = "active" /\ electrons[i].segment = "anode_wire"
          /\ LET e == electrons'[Len(electrons')]
             IN  e.status = "active" /\ e.segment = "cathode_wire" /\ e.progress = 0

C6_ListedEdgesOnly ==
    [](statusesListed) /\ [][ionsStepListed /\ electronsStepListed]_vars

\* C7: all ids of the ion list are pairwise distinct, and so are all ids of the
\* electron list, also when two events read the same clock value.
C7_IdsDistinct ==
    /\ \A i, j \in DOMAIN ions : ions[i].id = ions[j].id => i = j
    /\ \A i, j \in DOMAIN electrons : electrons[i].id = electrons[j].id => i = j

\* C8: a spawn at anodeMass <= 10 is rejected as AnodeDepleted and leaves the
\* registry and the ledger as they were.
C8_DepletedSpawnRejected ==
    [][(spawnIon /\ anodeMass <= DEPLETION_THRESHOLD) =>
         (toast' = "anodeDepleted" /\ UNCHANGED <<ions, electrons, anodeMass, cathodeMass,
                                                  platedCount>>)]_vars

C8_Witness == toast = "anodeDepleted" /\ anodeMass = DEPLETION_THRESHOLD

\* C9 (as stated): a spawn with 5 or more active particles is rejected as
\* CapacityExceeded and leaves the registry and the ledger as they were.
C9_FullSpawnIsCapacityExceeded ==
    [][(spawnIon /\ activeParticles >= ACTIVE_CAP) =>
         (toast' = "tooManyParticles" /\ UNCHANGED <<ions, electrons, anodeMass, cathodeMass,
                                                     platedCount>>)]_vars

\* C9 (amended): such a spawn is rejected and changes nothing; the condition
\* reported is CapacityExceeded while anodeMass > 10 and AnodeDepleted otherwise.
C9_FullSpawnRejected ==
    [][(spawnIon /\ activeParticles >= ACTIVE_CAP) =>
         /\ toast' = (IF anodeMass <= DEPLETION_THRESHOLD THEN "anodeDepleted"
                      ELSE "tooManyParticles")
         /\ UNCHANGED <<ions, electrons, anodeMass, cathodeMass, platedCount>>]_vars

C9_Witness == toast = "tooManyParticles" /\ activeParticles = ACTIVE_CAP

\* C10: a spawn while either latch is false is rejected as CircuitNotComplete
\* and changes nothing, and the registry is empty as long as the circuit is open.
C10_OpenCircuitSpawnRejected ==
    /\ [][(spawnIon /\ ~isCircuitComplete) =>
            (toast' = "circuitOpen" /\ UNCHANGED <<ions, electrons, anodeMass, cathodeMass,
                                                   platedCount>>)]_vars
    /\ [](~isCircuitComplete => (ions = <<>> /\ electrons = <<>>))

C10_Witness ==
    /\ toast = "circuitOpen"
    /\ isAnodeConnected
    /\ ~isCathodeConnected

\* The first Len(s) particles of t are the particles of s: the same fields, and
\* ids that are equal among themselves exactly where they were (the instants
\* of the ids are renamed from state to state).
keepsAll(s, t) ==
    /\ Len(t) >= Len(s)
    /\ \A i \in DOMAIN s : kindOf(t[i]) = kindOf(s[i])
    /\ \A i, j \in DOMAIN s : (t[i].id = t[j].id) <=> (s[i].id = s[j].id)

\* C11: a successful spawnIon takes 5 from anodeMass, appends one active ion to
\* the ion list and one active electron on the anode wire at progress 0 to the
\* electron list, and leaves cathodeMass, platedCount and the particles that
\* were there unchanged.
C11_SpawnAppendsPair ==
    [][(spawnIon /\ isCircuitComplete /\ anodeMass > DEPLETION_THRESHOLD
          /\ activeParticles < ACTIVE_CAP) =>
         /\ anodeMass' = anodeMass - MASS_PER_UNIT
         /\ Len(ions') = Len(ions) + 1
         /\ keepsAll(ions, ions')
         /\ ions'[Len(ions')].status = "active"
         /\ ions'[Len(ions')].type = "ion"
         /\ Len(electrons') = Len(electrons) + 1
         /\ keepsAll(electrons, electrons')
         /\ LET e == electrons'[Len(electrons')]
            IN  e.status = "active" /\ e.segment = "anode_wire" /\ e.progress = 0
         /\ UNCHANGED <<cathodeMass, platedCount>>]_vars

\* Two spawns have succeeded; the electron of the first has been dragged on
\* before the second spawn appended its own at progress 0.
C11_Witness ==
    /\ anodeMass = ANODE_START_MASS - 2 * MASS_PER_UNIT
    /\ Len(ions) = 2
    /\ Len(electrons) = 2
    /\ electrons[1].progress > 0
    /\ electrons[2].segment = "anode_wire" /\ electrons[2].progress = 0
    /\ toast = "none"

\* C12: anodeMass is never negative; no spawn succeeds at anodeMass <= 10; and
\* anodeMass changes only by a successful spawn (minus 5) or by a restart (to 50).
C12_AnodeMassLedger ==
    /\ [](anodeMass >= 0)
    /\ [][(spawnIon /\ anodeMass <= DEPLETION_THRESHOLD) =>
            UNCHANGED <<anodeMass, ions, electrons>>]_vars
    /\ [][anodeMass' # anodeMass =>
            \/ spawnIon /\ spawnRejection = "none" /\ anodeMass > DEPLETION_THRESHOLD
                  /\ anodeMass' = anodeMass - MASS_PER_UNIT
            \/ resetGame /\ anodeMass' = ANODE_START_MASS]_vars

\* The anode has come down to the threshold, particles are still under way and
\* a further click on the anode has been turned down.
C12_Witness ==
    /\ anodeMass = DEPLETION_THRESHOLD
    /\ activeParticles > 0
    /\ platedCount > 0
    /\ toast = "anodeDepleted"

\* completeElectronDrag(id) is handleElectronDragEnd(draggingElectronId), called
\* by svgMouseUp; "the electron" is the one its prev.find returns.
hasDragged ==
    /\ draggingElectronId # NULL
    /\ \E i \in DOMAIN electrons : electrons[i].id = draggingElectronId

draggedIndex ==
    CHOOSE i \in DOMAIN electrons :
        /\ electrons[i].id = draggingElectronId
        /\ \A j \in 1..(i - 1) : electrons[j].id # draggingElectronId

draggedElectron == electrons[draggedIndex]

\* The particles of s are those of t, in the same places.
sameParticles(s, t) == Len(t) = Len(s) /\ keepsAll(s, t)

ledgerUnchanged == UNCHANGED <<anodeMass, cathodeMass, platedCount>>

\* C13: completing the drag of an electron at progress >= 0.95 of the anode
\* wire removes that electron and appends one new electron, active, on the
\* cathode wire at progress 0, under an id other than that of the removed one
\* (the ids differ in their prefix already); ions and ledger are unchanged.
C13_HandOffAtBattery ==
    [][(svgMouseUp /\ hasDragged /\ draggedElectron.segment = "anode_wire"
          /\ draggedElectron.progress >= COMPLETE_THRESHOLD) =>
         /\ Len(electrons') = Len(electrons)
         /\ [i \in 1..(Len(electrons) - 1) |-> kindOf(electrons'[i])]
               = pick([i \in DOMAIN electrons |-> kindOf(electrons[i])],
                      DOMAIN electrons \ { draggedIndex })
         /\ LET e == electrons'[Len(electrons')]
            IN  /\ e.status = "active" /\ e.segment = "cathode_wire" /\ e.progress = 0
                /\ e.id[1] # draggedElectron.id[1]
         /\ sameParticles(ions, ions')
         /\ ledgerUnchanged]_vars

\* C14: completing the drag of an electron at progress >= 0.95 of the cathode
\* wire sets its status to waiting and its progress to 1, keeps its id and its
\* segment and changes no other particle; and every waiting electron is on the
\* cathode wire at progress 1.
C14_ArrivalAtCathode ==
    /\ [][(svgMouseUp /\ hasDragged /\ draggedElectron.segment = "cathode_wire"
             /\ draggedElectron.progress >= COMPLETE_THRESHOLD) =>
            /\ Len(electrons') = Len(electrons)
            /\ \A i \in DOMAIN electrons :
                  kindOf(electrons'[i]) =
                     IF i = draggedIndex
                     THEN kindOf([electrons[i] EXCEPT !.status = "waiting", !.progress = 100])
                     ELSE kindOf(electrons[i])
            /\ \A i, j \in DOMAIN electrons :
                  (electrons'[i].id = electrons'[j].id) <=> (electrons[i].id = electrons[j].id)
            /\ sameParticles(ions, ions')]_vars
    /\ [](\A i \in DOMAIN electrons :
             electrons[i].status = "waiting" =>
                (electrons[i].segment = "cathode_wire" /\ electrons[i].progress = 100))

\* C15: completing the drag of an electron whose progress is under 0.95, on
\* either wire, or of an id that no electron has, changes neither the registry
\* nor the ledger: the electron stays where it was dropped.
C15_ShortDragIsNoOp ==
    [][(svgMouseUp /\ (~hasDragged \/ draggedElectron.progress < COMPLETE_THRESHOLD)) =>
         /\ sameParticles(electrons, electrons')
         /\ sameParticles(ions, ions')
         /\ ledgerUnchanged]_vars

\* A drag was dropped half-way: the electron is still active at the progress it
\* had, between the two ends of the anode wire, and nothing is being dragged.
C15_Witness ==
    /\ draggingElectronId = NULL
    /\ \E i \in DOMAIN electrons :
          /\ electrons[i].status = "active"
          /\ electrons[i].segment = "anode_wire"
          /\ electrons[i].progress > 0
          /\ electrons[i].progress < COMPLETE_THRESHOLD

\* C16: completing a drag under the id of an electron that is already waiting
\* changes nothing: that electron, every other particle and the ledger stay as
\* they were, and no hand-off and no pairing follows.
C16_WaitingIdempotent ==
    [][(svgMouseUp /\ hasDragged /\ draggedElectron.status = "waiting") =>
         /\ Len(electrons') = Len(electrons)
         /\ \A i \in DOMAIN electrons : kindOf(electrons'[i]) = kindOf(electrons[i])
         /\ sameParticles(ions, ions')
         /\ ledgerUnchanged
         /\ toast' = "none"]_vars

\* dropIon(id, point) is handleIonDragEnd(ions[i].id, dropPoint), called by
\* ionDragEnd for an active ion: within a step of ionDragEnd, the ion and the
\* drop point of the call.
ionDropped(i, dropPoint) ==
    /\ ions[i].status = "active"
    /\ handleIonDragEnd(ions[i].id, dropPoint)

outOfBounds(dropPoint) ==
    \/ dropPoint.x < getElectrolyteBounds.left
    \/ dropPoint.x > getElectrolyteBounds.right
    \/ dropPoint.y < getElectrolyteBounds.top
    \/ dropPoint.y > getElectrolyteBounds.bottom

onCathodeTarget(dropPoint) == InRect(dropPoint, cathodeRect, 0)

someElectronWaits == \E k \in DOMAIN electrons : electrons[k].status = "waiting"

\* C17: a drop inside the electrolyte bounds and on the cathode target, while
\* an electron waits, sets the status of that ion to waiting; the pairing check
\* is the next thing to run, and it removes that ion and one waiting electron.
C17_DropOnCathodePairs ==
    /\ [][(ionDragEnd /\ someElectronWaits) =>
          \A i \in DOMAIN ions : \A dropPoint \in DropPoints :
            (~outOfBounds(dropPoint) /\ onCathodeTarget(dropPoint)
               /\ ionDropped(i, dropPoint)) =>
              /\ ions' = [ions EXCEPT ![i].status = "waiting"]
              /\ UNCHANGED electrons
              /\ ledgerUnchanged
              /\ pairingDue']_vars
    /\ [][pairingDue =>
            /\ pairingEffect
            /\ Len(ions') = Len(ions) - 1
            /\ Count(ions', IsWaiting) = 0
            /\ Len(electrons') = Len(electrons) - 1
            /\ Count(electrons', IsWaiting) = Count(electrons, IsWaiting) - 1]_vars

\* C18 (as stated): a drop on the cathode target while no electron waits is
\* turned down as NoWaitingElectron and changes no state.
C18_DropWithoutElectronRejected ==
    [][(ionDragEnd /\ ~someElectronWaits) =>
       \A i \in DOMAIN ions : \A dropPoint \in DropPoints :
         (onCathodeTarget(dropPoint) /\ ionDropped(i, dropPoint)) =>
           /\ toast' = "waitForElectron"
           /\ UNCHANGED <<ions, electrons, ionResetKey>>
           /\ ledgerUnchanged]_vars

\* C18 (amended): a drop inside the electrolyte bounds and on the cathode target
\* while no electron waits is turned down as NoWaitingElectron and changes no
\* state; on the part of the cathode target that lies outside the electrolyte
\* bounds the drop is turned down as OutOfBounds.
C18_DropInBoundsWithoutElectronRejected ==
    [][(ionDragEnd /\ ~someElectronWaits) =>
       \A i \in DOMAIN ions : \A dropPoint \in DropPoints :
         (onCathodeTarget(dropPoint) /\ ionDropped(i, dropPoint)) =>
           /\ toast' = (IF outOfBounds(dropPoint) THEN "stayInSolution"
                        ELSE "waitForElectron")
           /\ ~outOfBounds(dropPoint) => UNCHANGED ionResetKey
           /\ UNCHANGED <<ions, electrons>>
           /\ ledgerUnchanged]_vars

\* An ion has been dropped on the cathode while its electron was still on the
\* cathode wire, short of the end.
C18_Witness ==
    /\ toast = "waitForElectron"
    /\ ~someElectronWaits
    /\ \E k \in DOMAIN ions : ions[k].status = "active"
    /\ \E k \in DOMAIN electrons : electrons[k].segment = "cathode_wire"

\* C19: a drop outside the electrolyte bounds is turned down as OutOfBounds and
\* changes no status and no ledger entry, also on the cathode target with an
\* electron waiting; the ion stays active and goes back to its origin (the
\* reset key of the rendered ions is bumped, which mounts them anew).
C19_OutOfBoundsRejected ==
    [][ionDragEnd =>
       \A i \in DOMAIN ions : \A dropPoint \in DropPoints :
         (outOfBounds(dropPoint) /\ ionDropped(i, dropPoint)) =>
           /\ toast' = "stayInSolution"
           /\ UNCHANGED <<ions, electrons>>
           /\ ledgerUnchanged
           /\ ions'[i].status = "active"
           /\ ionResetKey' = ionResetKey + 1]_vars

\* An ion was dropped outside the bounds while an electron was waiting at the
\* cathode: the ion is still active, the electron still waits.
C19_Witness ==
    /\ toast = "stayInSolution"
    /\ ionResetKey > 0
    /\ someElectronWaits
    /\ \E k \in DOMAIN ions : ions[k].status = "active"

IsNotWaiting(p) == p.status # "waiting"

kinds(s) == [i \in DOMAIN s |-> kindOf(s[i])]

\* C20: a pairing batch is atomic: in one step exactly pairs ions and exactly
\* pairs electrons leave the registry, cathodeMass grows by 5 x pairs and
\* platedCount by pairs, anodeMass and the particles that do not wait stay as
\* they are; and no state shows a part of a batch: cathodeMass has grown by 5
\* for each plated ion, and no waiting ion is left next to a waiting electron
\* once the batch is through.
C20_PairingBatchAtomic ==
    /\ [][pairingEffect =>
            /\ Len(ions') = Len(ions) - pairs
            /\ Len(electrons') = Len(electrons) - pairs
            /\ cathodeMass' = cathodeMass + MASS_PER_UNIT * pairs
            /\ platedCount' = platedCount + pairs
            /\ anodeMass' = anodeMass
            /\ kinds(Filter(ions', IsNotWaiting)) = kinds(Filter(ions, IsNotWaiting))
            /\ kinds(Filter(electrons', IsNotWaiting))
                  = kinds(Filter(electrons, IsNotWaiting))]_vars
    /\ [][pairingEffect => ~pairingDue']_vars
    /\ [](cathodeMass = CATHODE_START_MASS + MASS_PER_UNIT * platedCount)

----------------------------------------------------------------------------
(* Claims C21 .. C30 *)

\* The list positions of the waiting electrons, and of the electrons that the
\* pending pairing batch removes.
waitingPositions == { i \in DOMAIN electrons : electrons[i].status = "waiting" }
removedByPairing == { i \in DOMAIN electrons : electrons[i].id \in usedElectronIds }

\* The first n positions of the set K.
firstOf(K, n) == { i \in K : Cardinality({ k \in K : k < i }) < n }

\* The electrons became waiting in the order in which the list holds them.
arrivedInListOrder ==
    \A j, k \in DOMAIN arrivals : j < k => arrivals[j] < arrivals[k]

\* C21 (as stated): when the pairing batch is due, the electrons it removes
\* are the ones that entered waiting status earliest, whatever the order in
\* which the electrons were handed off and completed.
C21_EarliestArrivedPairedFirst ==
    (tracked /\ pairingDue) => removedByPairing = { arrivals[j] : j \in 1..pairs }

\* C21 (amended): the pairing batch removes the waiting electrons that come
\* first in the electron list, which holds the cathode electrons in the order
\* of their hand-off; these are the earliest to have entered waiting status
\* only when the electrons completed in the order of their hand-off.
C21_FirstListedPairedFirst ==
    [][pairingEffect =>
          /\ firstOf(waitingPositions, pairs) \subseteq removedByPairing
          /\ kinds(electrons') = pick(kinds(electrons), DOMAIN electrons \ removedByPairing)
          /\ (tracked /\ arrivedInListOrder)
                => removedByPairing = { arrivals[j] : j \in 1..pairs }]_vars

\* A batch is due while the electron handed off first became waiting last.
C21_Witness ==
    /\ tracked
    /\ pairingDue
    /\ Len(arrivals) >= 2
    /\ arrivals[1] > arrivals[2]

\* The record lists exactly the waiting electrons.
arrivalsRecordWaiting ==
    tracked => /\ { arrivals[j] : j \in DOMAIN arrivals } = waitingPositions
               /\ Len(arrivals) = Cardinality(waitingPositions)

\* The stations of the end-to-end trace: the ledger after one spawn, with the
\* registry holding one ion of the given status and one electron of the given
\* segment and status (after the pairing: nothing).
oneSpawnLedger(plated) ==
    /\ anodeMass = ANODE_START_MASS - MASS_PER_UNIT
    /\ cathodeMass = CATHODE_START_MASS + MASS_PER_UNIT * plated
    /\ platedCount = plated

oneIon(status) ==
    /\ Len(ions) = 1
    /\ kindOf(ions[1]) = [kindOf(newIon(0)) EXCEPT !.status = status]

oneElectron(segment, status) ==
    /\ Len(electrons) = 1
    /\ electrons[1].segment = segment
    /\ electrons[1].status = status
    /\ electrons[1].type = (IF segment = "anode_wire" THEN "anode_electron"
                            ELSE "cathode_electron")

traceStart ==
    /\ anodeMass = ANODE_START_MASS
    /\ cathodeMass = CATHODE_START_MASS
    /\ platedCount = 0
    /\ ions = <<>>
    /\ electrons = <<>>
    /\ isCircuitComplete

traceEnd ==
    /\ oneSpawnLedger(1)
    /\ ions = <<>>
    /\ electrons = <<>>

\* C22: from 50 / 25 / 0 and an empty registry with both wires connected, a
\* spawn yields one ion and one electron at progress 0 of the anode wire with
\* anodeMass 45; ending the drag of that electron at progress >= 0.95 yields
\* one electron at progress 0 of the cathode wire; ending the drag of this one
\* at progress >= 0.95 makes it waiting; dropping the ion on the cathode
\* removes both, with cathodeMass 30 and platedCount 1.
C22_EndToEndTrace ==
    [][/\ (traceStart /\ spawnIon)
            => /\ oneSpawnLedger(0)'
               /\ oneIon("active")'
               /\ oneElectron("anode_wire", "active")'
               /\ electrons'[1].progress = 0
       /\ (oneSpawnLedger(0) /\ oneIon("active")
             /\ oneElectron("anode_wire", "active") /\ hasDragged
             /\ electrons[1].progress >= COMPLETE_THRESHOLD /\ svgMouseUp)
            => /\ oneSpawnLedger(0)'
               /\ oneIon("active")'
               /\ oneElectron("cathode_wire", "active")'
               /\ electrons'[1].progress = 0
       /\ (oneSpawnLedger(0) /\ oneIon("active")
             /\ oneElectron("cathode_wire", "active") /\ hasDragged
             /\ electrons[1].progress >= COMPLETE_THRESHOLD /\ svgMouseUp)
            => /\ oneSpawnLedger(0)'
               /\ oneIon("active")'
               /\ oneElectron("cathode_wire", "waiting")'
       /\ (oneSpawnLedger(0) /\ oneIon("active")
             /\ oneElectron("cathode_wire", "waiting") /\ ionDragEnd)
            => \A dropPoint \in DropPoints :
                 (/\ onCathodeTarget(dropPoint) /\ ~outOfBounds(dropPoint)
                  /\ ionDropped(1, dropPoint))
                 => /\ oneSpawnLedger(0)'
                    /\ oneIon("waiting")'
                    /\ oneElectron("cathode_wire", "waiting")'
       /\ (oneSpawnLedger(0) /\ oneIon("waiting")
             /\ oneElectron("cathode_wire", "waiting") /\ pairingEffect)
            => traceEnd']_vars

\* The end of the trace: one spawn made, its ion plated.
C22_Witness == traceEnd /\ toast = "platingSuccessful"

\* A drag is pending whose electron is not in the list.
staleDrag == draggingElectronId # NULL /\ ~hasDragged

\* C23: restart yields the initial state (both lists empty, 50 / 25 / 0, the
\* complete signal cleared, both latches false, the flow indicator stopped at
\* 0), and a drag that was in progress at the restart can afterwards neither
\* modify a particle nor come to point at a new one.
C23_RestartYieldsInitial ==
    [][/\ resetGame
            => /\ ions' = <<>>
               /\ electrons' = <<>>
               /\ anodeMass' = ANODE_START_MASS
               /\ cathodeMass' = CATHODE_START_MASS
               /\ platedCount' = 0
               /\ ~showSuccess'
               /\ ~isAnodeConnected'
               /\ ~isCathodeConnected'
               /\ currentDotProgress' = 0
               /\ flowIntervals' = 0
       /\ (staleDrag /\ (svgMouseMove \/ svgMouseUp \/ svgMouseLeave))
            => /\ sameParticles(electrons, electrons')
               /\ sameParticles(ions, ions')
               /\ ledgerUnchanged
       /\ (staleDrag /\ spawnIon) => ~hasDragged']_vars

\* C24: an interval of the flow indicator is live exactly while the circuit is
\* complete; when the circuit stops being complete (restart) the interval is
\* cleared and the indicator is 0; when it becomes complete again exactly one
\* interval is started; at most one interval is ever live; a tick changes
\* neither the particles nor the ledger.
C24_FlowTimerLifecycle ==
    [][/\ flowIntervals = (IF isCircuitComplete THEN 1 ELSE 0)
       /\ flowIntervals' = (IF isCircuitComplete' THEN 1 ELSE 0)
       /\ ~isCircuitComplete' => currentDotProgress' = 0
       /\ (isCircuitComplete /\ ~isCircuitComplete')
            => flowIntervals' = 0 /\ currentDotProgress' = 0
       /\ (~isCircuitComplete /\ isCircuitComplete')
            => flowIntervals' = flowIntervals + 1
       /\ flowIntervals' <= 1
       /\ flowTick => UNCHANGED <<ions, electrons, anodeMass, cathodeMass, platedCount,
                                  showSuccess, flowIntervals>>]_vars

\* The indicator runs in a game that was restarted (the anode is whole again
\* after an ion was dropped) and reconnected.
C24_Witness ==
    /\ ionResetKey > 0
    /\ anodeMass = ANODE_START_MASS
    /\ isCircuitComplete
    /\ flowIntervals = 1
    /\ currentDotProgress > 0

\* Ids that no electron of the list has: two of no clock reading and, if there
\* is one, the id of a drag whose electron is gone.
absentIds ==
    { << "ae", -1 >>, << "ce", -1 >> }
        \cup (IF staleDrag THEN { draggingElectronId } ELSE {})

definedElectron(e) == e.x \in Int /\ e.y \in Int /\ e.progress \in 0..100

\* C25: advanceElectron(id, point) leaves the registry and the ledger as they
\* are when no electron has the id, or when the path of the electron's segment
\* has no points; it never leaves an electron without a position or a progress.
C25_AdvanceNoOp ==
    /\ \A i \in DOMAIN electrons : definedElectron(electrons[i])
    /\ \A point \in DragPoints :
          /\ \A id \in absentIds :
                advancedElectrons(electrons, id, point,
                                  anodeWirePoints, cathodeWirePoints) = electrons
          /\ \A id \in absentIds \cup Ids(electrons) :
                advancedElectrons(electrons, id, point, <<>>, <<>>) = electrons
          /\ \A id \in Ids(electrons) :
                LET es == advancedElectrons(electrons, id, point,
                                            anodeWirePoints, cathodeWirePoints)
                IN  \A i \in DOMAIN es : definedElectron(es[i])

\* A drag is pending for an electron that is gone, while the list holds others.
C25_Witness == staleDrag /\ electrons # <<>>

pathOf(e) == IF e.segment = "anode_wire" THEN anodeWirePoints ELSE cathodeWirePoints

\* C26: wherever the path of its segment has points, the stored position of
\* every electron is the point of that path at the electron's progress.
C26_PositionFollowsProgress ==
    \A i \in DOMAIN electrons :
        Len(pathOf(electrons[i])) > 0
            => Pt(electrons[i].x, electrons[i].y)
                  = getPointOnPath(pathOf(electrons[i]), electrons[i].progress)

\* Pointer positions far outside the viewBox.
FarPoints == { Pt(-5000, -5000), Pt(5000, 300), Pt(500, 9000) }

\* C27: the progress of every electron lies in [0, 1], and so does the
\* progress that a drag to any pointer position gives it.
C27_ProgressInUnitRange ==
    /\ \A i \in DOMAIN electrons :
          /\ electrons[i].progress \in 0..100
          /\ \A point \in DragPoints :
                getProgressFromDrag(pathOf(electrons[i]), toSvgX(point.x), toSvgY(point.y),
                                    electrons[i].progress) \in 0..100
    /\ (ions = <<>> /\ electrons = <<>> /\ ~isAnodeConnected /\ ~isCathodeConnected)
          => \A point \in FarPoints : \A currentProgress \in { 0, 50, 100 } :
               /\ getProgressFromDrag(anodeWirePoints, point.x, point.y,
                                      currentProgress) \in 0..100
               /\ getProgressFromDrag(cathodeWirePoints, point.x, point.y,
                                      currentProgress) \in 0..100

\* One electron has completed the cathode wire (progress 1) while another is
\* part of the way along its wire.
C27_Witness ==
    /\ \E i \in DOMAIN electrons : electrons[i].progress = 100
    /\ \E i \in DOMAIN electrons :
          electrons[i].progress > 0 /\ electrons[i].progress < COMPLETE_THRESHOLD

ionFields == { "id", "type", "x", "y", "status" }
electronFields == ionFields \cup { "segment", "progress" }

\* C28: an ion has neither segment nor progress, an electron has both; an
\* electron is an anode_electron exactly on the anode wire and a
\* cathode_electron exactly on the cathode wire; the ion list holds ions
\* only and the electron list electrons only.
C28_KindFieldConsistency ==
    /\ \A i \in DOMAIN ions :
          /\ DOMAIN ions[i] = ionFields
          /\ ions[i].type = "ion"
          /\ ions[i].id[1] = "ion"
    /\ \A i \in DOMAIN electrons :
          /\ DOMAIN electrons[i] = electronFields
          /\ electrons[i].type \in { "anode_electron", "cathode_electron" }
          /\ electrons[i].segment \in { "anode_wire", "cathode_wire" }
          /\ electrons[i].type = "anode_electron" <=> electrons[i].segment = "anode_wire"
          /\ electrons[i].type = "cathode_electron" <=> electrons[i].segment = "cathode_wire"
          /\ electrons[i].id[1] = (IF electrons[i].segment = "anode_wire" THEN "ae" ELSE "ce")

\* The registry holds an ion, an electron on the anode wire and a waiting
\* electron of the cathode wire.
C28_Witness ==
    /\ ions # <<>>
    /\ \E i \in DOMAIN electrons : electrons[i].segment = "anode_wire"
    /\ \E i \in DOMAIN electrons :
          electrons[i].segment = "cathode_wire" /\ electrons[i].status = "waiting"

onAnodeWire(e) == e.segment = "anode_wire"
onCathodeWire(e) == e.segment = "cathode_wire"

\* C29: only the pairing and the restart destroy particles: a step that is
\* neither leaves both lists at least as long as they were, and a hand-off
\* replaces exactly one electron of the anode wire by one of the cathode wire.
C29_OnlyPairingDestroys ==
    [][/\ (Len(ions') < Len(ions) \/ Len(electrons') < Len(electrons))
            => (pairingEffect \/ resetGame)
       /\ (toast' = "electronAtBattery" /\ svgMouseUp)
            => /\ Count(electrons', onAnodeWire) = Count(electrons, onAnodeWire) - 1
               /\ Count(electrons', onCathodeWire) = Count(electrons, onCathodeWire) + 1]_vars

parkedElectron(e) == e.status = "active" /\ e.progress >= COMPLETE_THRESHOLD

\* C30: the pointer leaving the svg layer during a drag ends the drag and
\* changes nothing else: every electron keeps its progress, position, segment
\* and status, with no hand-off and no waiting transition even at progress
\* >= 0.95; a later release of a drag of such an electron performs the
\* transition of its segment.
C30_AbandonedDragChangesNothing ==
    [][/\ svgMouseLeave
            => /\ sameParticles(electrons, electrons')
               /\ sameParticles(ions, ions')
               /\ ledgerUnchanged
               /\ draggingElectronId' = NULL
               /\ toast' = "none"
       /\ (hasDragged /\ parkedElectron(draggedElectron) /\ svgMouseUp)
            => IF draggedElectron.segment = "anode_wire"
               THEN /\ toast' = "electronAtBattery"
                    /\ kindOf(electrons'[Len(electrons')]) = kindOf(newCathodeElectron(0))
               ELSE /\ electrons'[draggedIndex].status = "waiting"
                    /\ electrons'[draggedIndex].progress = 100]_vars

\* The only electron spawned since the restart is at the end of its wire,
\* still active, and no drag is pending: its drag was abandoned.
C30_Witness ==
    /\ anodeMass = ANODE_START_MASS - MASS_PER_UNIT
    /\ Len(electrons) = 1
    /\ parkedElectron(electrons[1])
    /\ draggingElectronId = NULL

----------------------------------------------------------------------------
(* Claims C31 .. C39 *)

\* C31: without a restart platedCount never goes down: no spawn, drag,
\* release, drop, connect or tick lowers it, and only the pairing raises it.
C31_PlatedCountMonotonic ==
    [][/\ platedCount' < platedCount => resetGame
       /\ platedCount' > platedCount => pairingEffect]_vars

\* The pairing has raised the count twice, and the indicator has ticked.
C31_Witness ==
    /\ platedCount = 2
    /\ toast = "platingSuccessful"
    /\ currentDotProgress > 0

\* Paths of 2 and of 5 waypoints, beside the two wires (3 waypoints each).
TestPaths ==
    { << Pt(0, 0), Pt(100, 200) >>,
      << Pt(0, 0), Pt(100, 0), Pt(100, 300), Pt(-100, 300), Pt(-100, -100) >> }

\* Progress values from below 0 to above 1, in hundredths.
TestProgress == (0 - 20)..120

\* r is the point at the fraction f (in hundredths) of the leg from p to q.
interpolates(r, p, q, f) ==
    /\ 100 * (r.x - p.x) = (q.x - p.x) * f
    /\ 100 * (r.y - p.y) = (q.y - p.y) * f

\* r lies on the leg from p to q.
onLeg(r, p, q) ==
    /\ (q.x - p.x) * (r.y - p.y) = (q.y - p.y) * (r.x - p.x)
    /\ Min(p.x, q.x) <= r.x /\ r.x <= Max(p.x, q.x)
    /\ Min(p.y, q.y) <= r.y /\ r.y <= Max(p.y, q.y)

pointAtProgressSpec(points, t) ==
    LET n == Len(points)
        r == getPointOnPath(points, t)
        k == (t * (n - 1)) \div 100
    IN  /\ t <= 0 => r = points[1]
        /\ t >= 100 => r = points[n]
        /\ (0 < t /\ t < 100)
              => interpolates(r, points[k + 1], points[k + 2], t * (n - 1) - 100 * k)
        /\ \A j \in 0..(n - 1) : (t * (n - 1) = 100 * j) => r = points[j + 1]
        /\ \E j \in 1..(n - 1) : onLeg(r, points[j], points[j + 1])

\* C32: on a path of n >= 2 waypoints getPointOnPath returns the first
\* waypoint for t <= 0, the last for t >= 1, and between them the linear
\* interpolation on leg floor(t (n - 1)) at the fraction t (n - 1) - floor;
\* t = k / (n - 1) gives waypoint k, and the result lies on the polyline.
C32_PointAtProgress ==
    /\ \A i \in DOMAIN electrons :
          pointAtProgressSpec(pathOf(electrons[i]), electrons[i].progress)
    /\ (ions = <<>> /\ electrons = <<>> /\ ~isAnodeConnected /\ ~isCathodeConnected)
          => \A points \in TestPaths \cup { anodeWirePoints, cathodeWirePoints } :
                \A t \in TestProgress : pointAtProgressSpec(points, t)

\* A drag has put an electron strictly inside the second leg of its wire.
C32_Witness ==
    \E i \in DOMAIN electrons :
        /\ electrons[i].progress > 50
        /\ electrons[i].progress < 100
        /\ Pt(electrons[i].x, electrons[i].y)
              = getPointOnPath(pathOf(electrons[i]), electrons[i].progress)

\* C33: silver is conserved: anodeMass + cathodeMass + 5 x (number of ions in
\* the registry) is 75 in every reachable state.
C33_SilverConserved ==
    anodeMass + cathodeMass + MASS_PER_UNIT * Len(ions)
        = ANODE_START_MASS + CATHODE_START_MASS

\* Silver is in all three places: taken from the anode, in solution as an
\* ion, and deposited on the cathode.
C33_Witness ==
    /\ anodeMass < ANODE_START_MASS
    /\ Len(ions) > 0
    /\ cathodeMass > CATHODE_START_MASS

\* C34: ions and electrons stay matched in number: the ion list and the
\* electron list have the same length in every reachable state.
C34_ListsSameLength == Len(ions) = Len(electrons)

\* C35: the cathode ledger follows the plated count: cathodeMass is
\* 25 + 5 x platedCount in every reachable state.
C35_CathodeLedger == cathodeMass = CATHODE_START_MASS + MASS_PER_UNIT * platedCount

\* Two ions have been plated and a third is in solution.
C35_Witness ==
    /\ platedCount = 2
    /\ cathodeMass = CATHODE_START_MASS + 2 * MASS_PER_UNIT
    /\ Len(ions) > 0

\* C36: an ion becomes waiting only while an electron waits, so at most one
\* ion waits when the pairing runs, every batch has pairs = 1, and a waiting
\* ion is gone once the event is handled (it is in the registry only while
\* the pairing is due, and the pairing leaves none); the waiting electrons
\* never outnumber the ions in the registry.
C36_OneIonWaitsAtATime ==
    [][/\ Len(waitingIons') <= 1
       /\ Len(waitingIons') > 0 => pairingDue'
       /\ pairingDue' => pairs' = 1
       /\ Len(waitingElectrons') <= Len(ions')
       /\ Len(waitingIons') > Len(waitingIons) => someElectronWaits
       /\ (Len(waitingIons') = 0 \/ ~pairingEffect)]_vars

\* Two electrons wait at the cathode, and an ion dropped there is about to
\* be paired with one of them.
C36_Witness ==
    /\ Len(waitingElectrons) >= 2
    /\ Len(waitingIons) = 1
    /\ pairs = 1

\* The condition a spawn has to signal, by the order of the claim.
rejectionInOrder ==
    CASE ~isCircuitComplete -> "circuitOpen"
      [] isCircuitComplete /\ anodeMass <= 10 -> "anodeDepleted"
      [] isCircuitComplete /\ anodeMass > 10 /\ activeParticles >= 5 -> "tooManyParticles"
      [] OTHER -> "none"

\* C37: spawnIon signals exactly one rejection, the first that holds of
\* CircuitNotComplete, AnodeDepleted (anodeMass <= 10), CapacityExceeded (5 or
\* more active particles), and changes nothing then; it succeeds exactly when
\* none of them holds.
C37_SpawnRejectionOrder ==
    [][spawnIon =>
         /\ toast' = rejectionInOrder
         /\ rejectionInOrder # "none"
               => UNCHANGED <<ions, electrons, anodeMass, cathodeMass, platedCount>>
         /\ rejectionInOrder = "none"
               => /\ Len(ions') = Len(ions) + 1
                  /\ Len(electrons') = Len(electrons) + 1
                  /\ anodeMass' = anodeMass - MASS_PER_UNIT]_vars

\* A spawn was rejected as AnodeDepleted while the registry was full as well.
C37_Witness ==
    /\ toast = "anodeDepleted"
    /\ anodeMass <= DEPLETION_THRESHOLD
    /\ activeParticles >= ACTIVE_CAP

\* C38: a drag-update changes only the progress and the position of the
\* dragged electron: its id, kind, segment and status, every other electron,
\* every ion, the ledger and the latches stay as they are, and the update
\* causes no hand-off, no waiting transition and no pairing.
C38_AdvanceFrame ==
    [][(hasDragged /\ svgMouseMove)
          => /\ Len(electrons') = Len(electrons)
             /\ \A i \in DOMAIN electrons :
                   IF i = draggedIndex
                   THEN electrons'[i] = [electrons[i] EXCEPT !.x = electrons'[i].x,
                                                            !.y = electrons'[i].y,
                                                            !.progress = electrons'[i].progress]
                   ELSE electrons'[i] = electrons[i]
             /\ UNCHANGED <<ions, anodeMass, cathodeMass, platedCount,
                            isAnodeConnected, isCathodeConnected, draggingElectronId>>
             /\ toast' # "electronAtBattery"
             /\ ~pairingDue']_vars

someIonWaits(s) == \E i \in DOMAIN s : s[i].status = "waiting"

\* Fair scheduling of the user's actions and of React: an effect that is due
\* runs; a user who can again and again pick up another electron, advance the
\* dragged one, complete a drag, or drop an ion on the cathode, does so.
userFairness ==
    /\ WF_vars(pairingEffect)
    /\ SF_vars(electronMouseDown /\ draggingElectronId' # draggingElectronId)
    /\ SF_vars(svgMouseMove /\ electrons' # electrons)
    /\ SF_vars(svgMouseUp /\ electrons' # electrons)
    /\ SF_vars(ionDragEnd /\ someIonWaits(ions'))

SpecFlowFair == InitFlow /\ [][Next]_vars /\ userFairness

SpecCoarseFair == InitCoarse /\ [][Next]_vars /\ userFairness

\* C39: the plating goal can be reached and no particle gets stuck: under fair
\* scheduling of the user's actions every ion that was spawned is eventually
\* removed, so the registry of ions is empty again and again.
C39_EveryIonEventuallyRemoved == []<>(ions = <<>>)

\* The goal of six plated ions has been reached.
C39_GoalReached == platedCount >= TOTAL_PLATING_GOAL /\ showSuccess

\* An ion is in the registry, no electron is, and the anode gives no more:
\* no electron can come to wait any more, so no pairing can take the ion.
ionStranded ==
    /\ ions # <<>>
    /\ electrons = <<>>
    /\ anodeMass <= DEPLETION_THRESHOLD

\* C39, a consequence: if every spawned ion can still be removed by a
\* pairing, no reachable state strands an ion.
C39_NoIonStranded == ~ionStranded

====
